---- MODULE Spec2Model ----
(***************************************************************************)
(* Model of the DELCOM client (src/src/index.ts): one Client object with   *)
(* its Session State (_config), its socket, the delegator role            *)
(* (delegateJob / createJob / sendFiles / clearDelegation) and the worker  *)
(* role (the socket handlers registered by init, clearJob).                *)
(*                                                                         *)
(* Granularity: Node runs one macrotask at a time and drains the microtask *)
(* queue after it.  An action is therefore one handler (or one             *)
(* continuation of an async function) run from the I/O completion that     *)
(* wakes it up to the next await of real I/O (file system, socket ack,     *)
(* stream 'finish', child process).                                        *)
(***************************************************************************)
EXTENDS Integers, Sequences, FiniteSets, TLC

\* ------------------------------------------------------------------ bounds
MaxCalls == 2       \* delegateJob calls made on the client
MaxEvents == 2      \* finished / worker_disconnect / delegation_failed events
MaxChunks == 2      \* 'data' events of the largest input file
MaxOffers == 2      \* job offers (new_job_ack) received
MaxOutput == 1      \* build/run output chunk events received
MaxRecv == 2        \* input chunk events (receive_file_data_ack) received
MaxRuns == 1        \* run_job events received

Calls == 1..MaxCalls
NoRes == 0

\* ------------------------------------------------------- program constants
outputNames == {"build_std_out", "build_std_err", "run_std_out", "run_std_err"}

\* ------------------------------------------------------------- input files
\* A path is a sequence of components; path.basename keeps the last one.
PDockerfile == <<"ctx", "Dockerfile">>
PMain == <<"ctx", "main.go">>
PNotes == <<"Dockerfile", "notes">>
PGone == <<"ctx", "gone">>

basename(p) == p[Len(p)]

\* fsp.lstat(p).isFile(): every path but PGone names a regular file
isFile(p) == p # PGone

\* number of 'data' events the read stream of p delivers
NumChunks(p) == IF p = PMain THEN MaxChunks ELSE 1

\* the filePaths arguments tried
\* the file-name manifests offered to the worker and the names chunks carry
Manifests == { {"Dockerfile"}, {"Dockerfile", "main.go"} }
ChunkNames == {"Dockerfile", "main.go", "stray"}

FilePathLists ==
  { <<PDockerfile>>,            \* a valid job
    <<PNotes>>,                 \* no file named Dockerfile after stripping
    <<PDockerfile, PGone>> }    \* a path that is not a file

\* a valid job of two files, one of them of several chunks
TwoFiles == <<PDockerfile, PMain>>

Range(s) == { s[i] : i \in DOMAIN s }

fileNames(paths) == { basename(p) : p \in Range(paths) }

\* the check dropped
includesDockerfileAlways(names) == TRUE

\* fileNames.includes('Dockerfile') (index.ts 418)
includesDockerfile(names) == "Dockerfile" \in names

VARIABLES
  socket,         \* this._socket is defined
  delcomTempDir,  \* this._config.delcomTempDir is defined
  isWorker,       \* this._config.isWorker
  isWorking,      \* this._config.isWorking
  job,            \* this._config.job: 0 (undefined) or the id of the JobInfo
  isDelegating,   \* this._config.isDelegating
  res,            \* this._config.res: 0 (undefined) or the id of the ResultInfo
  resWS,          \* ResultInfo d -> output name -> state of the write stream
  finishPromise,  \* ResultInfo d -> state of finishPromise
  pc,             \* delegateJob call c -> where the call is suspended
  filePaths,      \* call c -> its filePaths argument
  optOutDir,      \* call c -> opts.outDir was given
  outDir,         \* call c -> local outDir of delegateJob (ResultInfo id)
  awaited,        \* call c -> ResultInfo whose finishPromise it awaits
  ret,            \* call c -> value returned by delegateJob
  cbs,            \* call c -> lifecycle callbacks of opts invoked, in order
  clearing,       \* clearDelegation invocations suspended on Promise.all
  rs,             \* call c -> path index -> read stream of sendFiles
  inflight,       \* call c -> path index -> chunk requests not yet acked
  reqs,           \* call c -> requests the call emitted, acks it got (history)
  resolveCalls,   \* ResultInfo d -> times finishPromise.res was called
  discarded,      \* ResultInfo d -> it was config.res and no longer is
  firstClear,     \* ResultInfo d -> first clearDelegation invoked on it
  evSince,        \* call c -> a terminating event arrived since it started
  nEvents,        \* terminating events delivered so far
  nOutput,        \* output chunk events delivered so far
  jobWS,          \* JobInfo j -> file name -> state of the input write stream
  offers,         \* new_job_ack handlers suspended on mkdtemp
  nOffers,        \* job offers delivered so far
  writes,         \* input chunk writes whose callback has not run yet
  content,        \* JobInfo j -> file name -> chunks passed to ws.write, in order
  acks,           \* acknowledgments given to input chunk events, in order
  nRecv,          \* input chunk events delivered so far
  runs,           \* run_job handlers suspended on an await: the job whose
                  \* streams they ended (origin) and the job they build (j)
  nRuns,          \* run_job events delivered so far
  step            \* what the last handler did (its name, emits, ack)

delegVars == <<isDelegating, res, resWS, finishPromise, pc, filePaths,
               optOutDir, outDir, awaited, ret, cbs, clearing, rs, inflight, reqs,
               resolveCalls, discarded, firstClear, evSince, nEvents>>
workerVars == <<isWorker, isWorking, job, jobWS, offers, nOffers, writes, content, acks,
                nRecv, runs, nRuns>>
vars == <<socket, delcomTempDir, delegVars, workerVars, nOutput, step>>

NoRet == [kind |-> "none", err |-> "", dir |-> NoRes]
NoFirst == [state |-> "none", err |-> ""]

\* the err argument of clearJob: absent, an Error object or a string
NoErr == [kind |-> "none", msg |-> ""]
ErrorOf(msg) == [kind |-> "Error", msg |-> msg]
StringErr(msg) == [kind |-> "string", msg |-> msg]

\* step: the handler that ran last, what it emitted on the socket, what it
\* passed to its acknowledgment callback, which cleanup routine it invoked,
\* whether the sub-state was already cleared when it did, and the error it
\* passed to clearJob
DidE(op, emits, ack, clr, again, err) ==
  [op |-> op, emits |-> emits, ack |-> ack, clr |-> clr, again |-> again,
   err |-> err]
DidC(op, emits, ack, clr, again) == DidE(op, emits, ack, clr, again, NoErr)
Did(op, emits, ack) == DidC(op, emits, ack, "", FALSE)

\* ------------------------------------------------------------------- Init
\* The state after `new Client(ip, port)` (constructor, index.ts 25-48).
Init ==
  /\ socket = FALSE
  /\ delcomTempDir = FALSE
  /\ isWorker = FALSE
  /\ isWorking = FALSE
  /\ job = 0
  /\ isDelegating = FALSE
  /\ res = NoRes
  /\ resWS = [d \in Calls |-> [n \in outputNames |-> "none"]]
  /\ finishPromise = [d \in Calls |-> [state |-> "absent", err |-> ""]]
  /\ pc = [c \in Calls |-> "idle"]
  /\ filePaths = [c \in Calls |-> <<>>]
  /\ optOutDir = [c \in Calls |-> FALSE]
  /\ outDir = [c \in Calls |-> NoRes]
  /\ awaited = [c \in Calls |-> NoRes]
  /\ ret = [c \in Calls |-> NoRet]
  /\ cbs = [c \in Calls |-> <<>>]
  /\ clearing = <<>>
  /\ rs = [c \in Calls |-> <<>>]
  /\ inflight = [c \in Calls |-> <<>>]
  /\ reqs = [c \in Calls |-> {}]
  /\ resolveCalls = [d \in Calls |-> 0]
  /\ discarded = [d \in Calls |-> FALSE]
  /\ firstClear = [d \in Calls |-> NoFirst]
  /\ evSince = [c \in Calls |-> FALSE]
  /\ nEvents = 0
  /\ nOutput = 0
  /\ jobWS = [j \in 1..MaxOffers |-> [n \in {} |-> "none"]]
  /\ offers = <<>>
  /\ nOffers = 0
  /\ writes = <<>>
  /\ content = [j \in 1..MaxOffers |-> [n \in {} |-> <<>>]]
  /\ acks = <<>>
  /\ nRecv = 0
  /\ runs = <<>>
  /\ nRuns = 0
  /\ step = Did("new", {}, "")

\* ------------------------------------------------- init() and quit()
\* init (index.ts 55-65): creates the temp root and the socket.  The model
\* connects once.
init ==
  /\ ~delcomTempDir
  /\ delcomTempDir' = TRUE
  /\ socket' = TRUE
  /\ step' = Did("init", {}, "")
  /\ UNCHANGED <<delegVars, workerVars, nOutput>>

\* quit (index.ts 306-317): disconnects and forgets the socket.
quit ==
  /\ socket
  /\ socket' = FALSE
  /\ step' = Did("quit", {}, "")
  /\ UNCHANGED <<delcomTempDir, delegVars, workerVars, nOutput>>

\* 'disconnect' (index.ts 191-193): the transport dropped; the handler logs
\* the reason.  this._socket stays defined and reconnects by itself.
disconnect ==
  /\ socket
  /\ step' = Did("disconnect", {}, "")
  /\ UNCHANGED <<socket, delcomTempDir, delegVars, workerVars, nOutput>>

\* ------------------------------------ joinWorkforce and leaveWorkforce
\* joinWorkforce (index.ts 214-227) up to its await: sets isWorker and, with
\* a socket, emits the join request; what follows only builds the result
joinWorkforce ==
  /\ isWorker' = TRUE
  /\ step' = Did("joinWorkforce", IF socket THEN {"join_ack"} ELSE {}, "")
  /\ UNCHANGED <<socket, delcomTempDir, delegVars, isWorking, job, jobWS, offers,
                 nOffers, writes, content, acks, nRecv, runs, nRuns, nOutput>>

\* leaveWorkforce that also unwinds the worker
leaveWorkforceClearsJob ==
  /\ isWorker' = FALSE
  /\ isWorking' = FALSE
  /\ job' = 0
  /\ step' = Did("leaveWorkforce", IF socket THEN {"leave_ack"} ELSE {}, "")
  /\ UNCHANGED <<socket, delcomTempDir, delegVars, jobWS, offers,
                 nOffers, writes, content, acks, nRecv, runs, nRuns, nOutput>>

\* leaveWorkforce (index.ts 229-242) up to its await: clears isWorker and,
\* with a socket, emits the leave request; what follows only builds the
\* result
leaveWorkforce ==
  /\ isWorker' = FALSE
  /\ step' = Did("leaveWorkforce", IF socket THEN {"leave_ack"} ELSE {}, "")
  /\ UNCHANGED <<socket, delcomTempDir, delegVars, isWorking, job, jobWS, offers,
                 nOffers, writes, content, acks, nRecv, runs, nRuns, nOutput>>

\* ------------------------------------------------------ clearDelegation
Min(S) == CHOOSE x \in S : \A y \in S : x <= y

\* ws.end() (index.ts 501): starts finishing an open stream; on a stream
\* that is already ending or finished it does nothing.
EndStream(st) == IF st = "open" THEN "ending" ELSE st

\* clearDelegation up to its await (index.ts 490-505), and to its end when
\* config.res is undefined and nothing is awaited (index.ts 506-513).
\* c, stage name the caller that awaits it (c = 0: a socket handler).
clearDelegation(err, c, stage) ==
  IF res = NoRes
  THEN /\ isDelegating' = FALSE
       /\ res' = NoRes
       /\ UNCHANGED <<resWS, finishPromise, clearing, resolveCalls,
                      discarded, firstClear>>
  ELSE /\ resWS' = [resWS EXCEPT ![res] = [n \in outputNames |-> EndStream(@[n])]]
       /\ clearing' = Append(clearing,
                        [target |-> res, err |-> err, remaining |-> outputNames,
                         cont |-> c, stage |-> stage,
                         first |-> firstClear[res].state = "none"])
       /\ firstClear' = IF firstClear[res].state = "none"
                        THEN [firstClear EXCEPT ![res] = [state |-> "pending", err |-> err]]
                        ELSE firstClear
       /\ UNCHANGED <<isDelegating, res, finishPromise, resolveCalls, discarded>>

\* What delegateJob returns once createJob (stage "create", index.ts 288-291)
\* or sendFiles (stage "send", index.ts 294-300) has come back from a
\* clearDelegation that left config.res undefined.
NoOutDirErr == "No outDir after creating job?"
RetErr(e) == [kind |-> "err", err |-> e, dir |-> NoRes]
RetRes(d) == [kind |-> "res", err |-> "", dir |-> d]
ReturnAfterClear(c, stage) ==
  IF stage = "create" THEN RetErr(NoOutDirErr) ELSE RetRes(outDir[c])

\* delegateJob resumed from `await finishPromise.promise` (index.ts 295-300)
ReturnAfterFinish(c, e) == IF e # "" THEN RetErr(e) ELSE RetRes(outDir[c])

\* whenJobDone is invoked unless finishRes carries an error (index.ts 296-299)
CallbacksAfterFinish(e) == IF e # "" THEN <<>> ELSE <<"whenJobDone">>

\* A call's try block reaches clearDelegation(err) in a catch
\* (index.ts 429-431, 463-465).
FailCallState(c, err, stage, op) ==
  /\ clearDelegation(err, c, stage)
  /\ step' = Did(op, {}, "")
  /\ IF res = NoRes
     THEN /\ pc' = [pc EXCEPT ![c] = "done"]
          /\ ret' = [ret EXCEPT ![c] = ReturnAfterClear(c, stage)]
     ELSE /\ pc' = [pc EXCEPT ![c] = "clearing"]
          /\ ret' = ret

\* the lifecycle callbacks delegateJob invokes once createJob (stage
\* "create") or sendFiles (stage "send") has come back from clearDelegation
\* with config.res undefined: none on the throw of index.ts 290; both
\* whenFilesSent and whenJobDone after sendFiles, since finishRes is
\* undefined (index.ts 294-299)
CallbacksAfterClear(stage) ==
  IF stage = "send" THEN <<"whenFilesSent", "whenJobDone">> ELSE <<>>

FailCall(c, err, stage, op) ==
  /\ FailCallState(c, err, stage, op)
  /\ cbs' = IF res = NoRes
            THEN [cbs EXCEPT ![c] = @ \o CallbacksAfterClear(stage)]
            ELSE cbs

\* The four output streams of a ResultInfo are treated alike by every
\* handler, so their 'finish' events are explored in one order only (a
\* symmetry reduction): the next to finish is the first still ending.
outputOrder == <<"build_std_out", "build_std_err", "run_std_out", "run_std_err">>
FirstEnding(d) ==
  LET S == { k \in 1..4 : resWS[d][outputOrder[k]] = "ending" }
  IN IF S = {} THEN "" ELSE outputOrder[Min(S)]

\* 'finish' of one output stream (index.ts 497-499, 502): every suspended
\* clearDelegation listening on it moves on; those whose Promise.all is
\* complete run index.ts 506-513 in the order they were invoked, then their
\* callers and the call awaiting the resolved finishPromise resume.
StreamFinish(d, n) ==
  /\ resWS[d][n] = "ending"
  /\ n = FirstEnding(d)
  /\ resWS' = [resWS EXCEPT ![d][n] = "finished"]
  /\ LET cl1 == [i \in DOMAIN clearing |->
                   IF clearing[i].target = d
                   THEN [clearing[i] EXCEPT !.remaining = @ \ {n}]
                   ELSE clearing[i]]
         resumed == { i \in DOMAIN cl1 : cl1[i].remaining = {} }
         keep == SelectSeq(cl1, LAMBDA r : r.remaining # {})
     IN /\ clearing' = keep
        /\ IF resumed = {}
           THEN UNCHANGED <<isDelegating, res, finishPromise, resolveCalls,
                            discarded, firstClear, pc, ret, cbs>>
           ELSE LET win == cl1[Min(resumed)]
                    byCall(c) == { i \in resumed : cl1[i].cont = c }
                IN /\ isDelegating' = FALSE
                   /\ res' = NoRes
                   /\ finishPromise' =
                        IF res # NoRes
                        THEN [finishPromise EXCEPT ![res] =
                                IF @.state = "pending"
                                THEN [state |-> "resolved", err |-> win.err]
                                ELSE @]
                        ELSE finishPromise
                   /\ resolveCalls' = IF res # NoRes
                                      THEN [resolveCalls EXCEPT ![res] = @ + 1]
                                      ELSE resolveCalls
                   /\ discarded' = IF res # NoRes
                                   THEN [discarded EXCEPT ![res] = TRUE]
                                   ELSE discarded
                   /\ firstClear' = [x \in Calls |->
                        IF \E i \in resumed : cl1[i].target = x /\ cl1[i].first
                        THEN [firstClear[x] EXCEPT !.state = "done"]
                        ELSE firstClear[x]]
                   /\ pc' = [c \in Calls |->
                        IF byCall(c) # {} THEN "done"
                        ELSE IF pc[c] = "awaitFinish" /\ res # NoRes /\ awaited[c] = res
                             THEN "done" ELSE pc[c]]
                   /\ ret' = [c \in Calls |->
                        IF byCall(c) # {}
                        THEN ReturnAfterClear(c, cl1[Min(byCall(c))].stage)
                        ELSE IF pc[c] = "awaitFinish" /\ res # NoRes /\ awaited[c] = res
                             THEN ReturnAfterFinish(c, win.err) ELSE ret[c]]
                   /\ cbs' = [c \in Calls |->
                        IF byCall(c) # {}
                        THEN cbs[c] \o CallbacksAfterClear(cl1[Min(byCall(c))].stage)
                        ELSE IF pc[c] = "awaitFinish" /\ res # NoRes /\ awaited[c] = res
                             THEN cbs[c] \o CallbacksAfterFinish(win.err) ELSE cbs[c]]
  /\ step' = Did("delegateJob", {}, "")
  /\ UNCHANGED <<socket, delcomTempDir, filePaths, optOutDir, outDir, awaited,
                 rs, inflight, reqs, evSince, nEvents, workerVars, nOutput>>

\* ------------------------------------------------ createJob (delegateJob)
\* index.ts 387-406: the new ResultInfo replaces config.res, its finishPromise
\* is pending and its four output write streams are open.
NewRes(c) ==
  /\ res' = c
  /\ finishPromise' = [finishPromise EXCEPT ![c] = [state |-> "pending", err |-> ""]]
  /\ resWS' = [resWS EXCEPT ![c] = [n \in outputNames |-> "open"]]
  /\ discarded' = IF res # NoRes /\ res # c
                  THEN [discarded EXCEPT ![res] = TRUE] ELSE discarded

\* delegateJob called (index.ts 284-286) and createJob run to its first
\* await (index.ts 386-407): with opts.outDir the ResultInfo is built at
\* once and lstat(dir) awaited, without it mkdtemp is awaited first.
delegateJob(c, paths, od) ==
  /\ pc[c] = "idle"
  /\ \A b \in Calls : b < c => pc[b] # "idle"
  /\ filePaths' = [filePaths EXCEPT ![c] = paths]
  /\ optOutDir' = [optOutDir EXCEPT ![c] = od]
  /\ isDelegating' = TRUE
  /\ IF od
     THEN /\ NewRes(c)
          /\ pc' = [pc EXCEPT ![c] = "lstat"]
     ELSE /\ pc' = [pc EXCEPT ![c] = "mkdtemp"]
          /\ UNCHANGED <<res, finishPromise, resWS, discarded>>
  /\ step' = Did("delegateJob", {}, "")
  /\ UNCHANGED <<socket, delcomTempDir, outDir, awaited, ret, cbs, clearing, rs,
                 inflight, reqs, resolveCalls, firstClear, evSince, nEvents,
                 workerVars, nOutput>>

\* fsp.mkdtemp(`${delcomTempDir}/res`) settles (index.ts 389-391): it needs
\* the temp root that init creates.
createJobMkdtemp(c) ==
  /\ pc[c] = "mkdtemp"
  /\ IF delcomTempDir
     THEN /\ NewRes(c)
          /\ pc' = [pc EXCEPT ![c] = "lstat"]
          /\ step' = Did("delegateJob", {}, "")
          /\ UNCHANGED <<isDelegating, ret, cbs, clearing, resolveCalls, firstClear>>
     ELSE /\ FailCall(c, "ENOENT", "create", "delegateJob")
  /\ UNCHANGED <<socket, delcomTempDir, filePaths, optOutDir, outDir, awaited,
                 rs, inflight, reqs, evSince, nEvents, workerVars, nOutput>>

\* sendFiles up to its await (index.ts 435-460).
sendFilesBegin(c, op) ==
  IF ~socket
  THEN /\ FailCallState(c, "No socket to send through!", "send", op)
       /\ UNCHANGED <<rs, inflight, awaited>>
  ELSE /\ step' = Did(op, {}, "")
       /\ rs' = [rs EXCEPT ![c] =
                   [i \in DOMAIN filePaths[c] |-> [sent |-> 0, state |-> "open"]]]
       /\ inflight' = [inflight EXCEPT ![c] = [i \in DOMAIN filePaths[c] |-> 0]]
       /\ pc' = [pc EXCEPT ![c] = "sending"]
       /\ UNCHANGED <<ret, awaited, isDelegating, res, resWS, finishPromise,
                      clearing, resolveCalls, discarded, firstClear>>

\* createJob has returned without calling clearDelegation: delegateJob reads
\* config.res.dir, invokes whenJobAssigned and goes on to sendFiles
\* (index.ts 287-293).
afterCreateJob(c, op) ==
  IF res = NoRes
  THEN /\ step' = Did(op, {}, "")
       /\ pc' = [pc EXCEPT ![c] = "done"]
       /\ ret' = [ret EXCEPT ![c] = RetErr(NoOutDirErr)]
       /\ UNCHANGED <<outDir, rs, inflight, awaited, isDelegating, res, resWS,
                      finishPromise, clearing, resolveCalls, discarded, firstClear,
                      cbs>>
  ELSE /\ outDir' = [outDir EXCEPT ![c] = res]
       /\ cbs' = [cbs EXCEPT ![c] = Append(@, "whenJobAssigned")]
       /\ sendFilesBegin(c, op)

\* the lstat calls settle (index.ts 407-425): directory and path checks, the
\* Dockerfile check, the log line that reads config.res.dir, then the
\* job-creation request.  The two consecutive awaits (407, 410) have no
\* code between them that another handler could observe and are one step.
createJobLstat(c) ==
  /\ pc[c] = "lstat"
  /\ IF \E p \in Range(filePaths[c]) : ~isFile(p)
     THEN /\ FailCall(c, "Invalid file path!", "create", "delegateJob")
          /\ UNCHANGED <<reqs, outDir, rs, inflight, awaited>>
     ELSE IF ~includesDockerfile(fileNames(filePaths[c]))
     THEN /\ FailCall(c, "No Dockerfile found in filePaths!", "create", "delegateJob")
          /\ UNCHANGED <<reqs, outDir, rs, inflight, awaited>>
     ELSE IF res = NoRes
     THEN /\ FailCall(c, "TypeError", "create", "delegateJob")
          /\ UNCHANGED <<reqs, outDir, rs, inflight, awaited>>
     ELSE IF socket
     THEN /\ reqs' = [reqs EXCEPT ![c] = @ \cup {"new_job_ack"}]
          /\ pc' = [pc EXCEPT ![c] = "ack"]
          /\ step' = Did("delegateJob", {}, "")
          /\ UNCHANGED <<outDir, rs, inflight, awaited, ret, cbs, isDelegating,
                         res, resWS, finishPromise, clearing, resolveCalls,
                         discarded, firstClear>>
     ELSE /\ afterCreateJob(c, "delegateJob")
          /\ UNCHANGED reqs
  /\ UNCHANGED <<socket, delcomTempDir, filePaths, optOutDir, evSince, nEvents,
                 workerVars, nOutput>>

\* the acknowledgment of the job-creation request arrives (index.ts
\* 422-428); e is the error it carries ("" for none).
createJobAck(c, e) ==
  /\ pc[c] = "ack"
  /\ socket
  /\ IF e # ""
     THEN /\ FailCall(c, e, "create", "delegateJob")
          /\ UNCHANGED <<outDir, rs, inflight, awaited>>
     ELSE afterCreateJob(c, "delegateJob")
  /\ reqs' = [reqs EXCEPT ![c] = @ \cup {IF e # "" THEN "ack error" ELSE "ack"}]
  /\ UNCHANGED <<socket, delcomTempDir, filePaths, optOutDir, evSince,
                 nEvents, workerVars, nOutput>>

\* ------------------------------------------------------------ sendFiles
\* sendFiles has finished without calling clearDelegation: delegateJob
\* invokes whenFilesSent and awaits the finishPromise of config.res, if any
\* (index.ts 294-300).
afterSendFiles(c) ==
  IF res = NoRes
  THEN /\ pc' = [pc EXCEPT ![c] = "done"]
       /\ ret' = [ret EXCEPT ![c] = ReturnAfterFinish(c, "")]
       /\ cbs' = [cbs EXCEPT ![c] = @ \o <<"whenFilesSent">> \o CallbacksAfterFinish("")]
       /\ UNCHANGED awaited
  ELSE /\ pc' = [pc EXCEPT ![c] = "awaitFinish"]
       /\ awaited' = [awaited EXCEPT ![c] = res]
       /\ cbs' = [cbs EXCEPT ![c] = Append(@, "whenFilesSent")]
       /\ UNCHANGED ret

\* 'data' of the read stream of path i (index.ts 446-450): the handler
\* emits the chunk request; the stream keeps flowing whatever the handler
\* awaits.
readData(c, i) ==
  /\ i \in DOMAIN rs[c]
  /\ rs[c][i].state = "open"
  /\ rs[c][i].sent < NumChunks(filePaths[c][i])
  /\ rs' = [rs EXCEPT ![c][i].sent = @ + 1]
  /\ inflight' = [inflight EXCEPT ![c][i] = @ + 1]
  /\ reqs' = [reqs EXCEPT ![c] = @ \cup {"send_file_data_ack"}]
  /\ step' = Did("delegateJob", {}, "")
  /\ UNCHANGED <<socket, delcomTempDir, isDelegating, res, resWS, finishPromise,
                 pc, filePaths, optOutDir, outDir, awaited, ret, cbs, clearing,
                 resolveCalls, discarded, firstClear, evSince, nEvents,
                 workerVars, nOutput>>

\* how the wait for the acknowledgment of a chunk request can end
\* (index.ts 447-449): callback(), callback({err}), or the timeout
ChunkAckOk == ""
ChunkAckErr == "No job setup to write to!"
ChunkAckTimeout == "operation has timed out"
ChunkAckOutcomes == {ChunkAckOk, ChunkAckErr, ChunkAckTimeout}
ChunkAckRecord(e) ==
  IF e = ChunkAckOk THEN {}
  ELSE IF e = ChunkAckTimeout THEN {"chunk ack timeout"} ELSE {"chunk ack error"}

\* the acknowledgment of a chunk request arrives or times out (index.ts
\* 447-449): the listener's await ends.  The value of emitWithAck is not
\* read, and a rejection leaves the async listener with nobody awaiting it,
\* so neither reaches sendFiles.
chunkAck(c, i, e) ==
  /\ i \in DOMAIN inflight[c]
  /\ inflight[c][i] > 0
  /\ inflight' = [inflight EXCEPT ![c][i] = @ - 1]
  /\ reqs' = [reqs EXCEPT ![c] = @ \cup ChunkAckRecord(e)]
  /\ step' = Did("delegateJob", {}, "")
  /\ UNCHANGED <<socket, delcomTempDir, isDelegating, res, resWS, finishPromise,
                 pc, filePaths, optOutDir, outDir, awaited, ret, cbs, clearing, rs,
                 resolveCalls, discarded, firstClear, evSince, nEvents,
                 workerVars, nOutput>>

\* 'close' of the read stream of path i (index.ts 451-465): after the last
\* chunk, or after a read error (errored).  The first rejection settles
\* Promise.all; the last successful close emits files_done_sending.
readClose(c, i, errored) ==
  /\ i \in DOMAIN rs[c]
  /\ rs[c][i].state = "open"
  /\ errored \/ rs[c][i].sent = NumChunks(filePaths[c][i])
  /\ rs' = [rs EXCEPT ![c][i].state = IF errored THEN "errored" ELSE "closed"]
  /\ IF pc[c] # "sending"
     THEN /\ step' = Did("delegateJob", {}, "")
          /\ UNCHANGED <<pc, ret, cbs, awaited, reqs, isDelegating, res, resWS,
                         finishPromise, clearing, resolveCalls, discarded,
                         firstClear>>
     ELSE IF errored
     THEN /\ FailCall(c, "readStream errored", "send", "delegateJob")
          /\ UNCHANGED <<awaited, reqs>>
     ELSE IF \A k \in DOMAIN rs[c] : k # i => rs[c][k].state = "closed"
     THEN /\ reqs' = [reqs EXCEPT ![c] = @ \cup {"files_done_sending"}]
          /\ step' = Did("delegateJob", {}, "")
          /\ afterSendFiles(c)
          /\ UNCHANGED <<isDelegating, res, resWS, finishPromise, clearing,
                         resolveCalls, discarded, firstClear>>
     ELSE /\ step' = Did("delegateJob", {}, "")
          /\ UNCHANGED <<pc, ret, cbs, awaited, reqs, isDelegating, res, resWS,
                         finishPromise, clearing, resolveCalls, discarded,
                         firstClear>>
  /\ UNCHANGED <<socket, delcomTempDir, filePaths, optOutDir, outDir, inflight,
                 evSince, nEvents, workerVars, nOutput>>

\* ------------------------------------- terminating events of a delegation
InCall(c) == pc[c] \notin {"idle", "done"}

\* 'finished' (168-170), 'worker_disconnect' (181-184) and
\* 'delegation_failed' (186-189): clearDelegation with the event's error.
TerminatingEvent(op, err) ==
  /\ socket
  /\ nEvents < MaxEvents
  /\ nEvents' = nEvents + 1
  /\ clearDelegation(err, 0, "handler")
  /\ evSince' = [c \in Calls |-> evSince[c] \/ InCall(c)]
  /\ step' = DidC(op, {}, "", "clearDelegation", ~isDelegating /\ res = NoRes)
  /\ UNCHANGED <<socket, delcomTempDir, pc, filePaths, optOutDir, outDir,
                 awaited, ret, cbs, rs, inflight, reqs, workerVars, nOutput>>

finished == TerminatingEvent("finished", "")
worker_disconnect == TerminatingEvent("worker_disconnect", "Worker has disconnected")
delegation_failed == TerminatingEvent("delegation_failed", "Delegation failed")

\* ------------------------------------------------------------- clearJob
\* the callback answered without the error
ClearJobAckAlwaysOk(err, hasCb) ==
  IF ~hasCb THEN "" ELSE "ok"

\* what clearJob passes to the callback (index.ts 471-481); "" when there
\* is no callback
ClearJobAck(err, hasCb) ==
  IF ~hasCb THEN ""
  ELSE IF err.kind = "Error" THEN err.msg
  ELSE IF err.kind = "string" THEN err.msg
  ELSE IF err.kind # "none" THEN "Unknown error"
  ELSE "ok"

\* what clearJob emits (index.ts 482-487)
ClearJobEmits(err) ==
  IF err.kind # "none" /\ socket THEN {"clearing_job"} ELSE {}

\* `isWorking = true` written for `isWorking = false`
clearJobSetsWorking(err, hasCb, op) ==
  /\ isWorking' = TRUE
  /\ job' = 0
  /\ step' = DidE(op, ClearJobEmits(err), ClearJobAck(err, hasCb), "clearJob",
                  ~isWorking /\ job = 0, err)

\* clearJob (index.ts 468-488), called by handler op
clearJob(err, hasCb, op) ==
  /\ isWorking' = FALSE
  /\ job' = 0
  /\ step' = DidE(op, ClearJobEmits(err), ClearJobAck(err, hasCb), "clearJob",
                  ~isWorking /\ job = 0, err)

\* ------------------------------------------------- worker: 'new_job_ack'
\* the handler up to `await fsp.mkdtemp` (index.ts 69-82), or to the end of
\* its catch (95-97) when the offer is rejected
new_job_ack(names) ==
  /\ socket
  /\ nOffers < MaxOffers
  /\ nOffers' = nOffers + 1
  /\ IF isWorking \/ job # 0
     THEN /\ clearJob(ErrorOf("Already working job!"), TRUE, "new_job_ack")
          /\ UNCHANGED offers
     ELSE IF ~delcomTempDir
     THEN /\ clearJob(ErrorOf("No temp dir!"), TRUE, "new_job_ack")
          /\ UNCHANGED offers
     ELSE /\ isWorking' = TRUE
          /\ offers' = Append(offers, [id |-> nOffers + 1, names |-> names])
          /\ step' = Did("new_job_ack", {}, "")
          /\ UNCHANGED job
  /\ UNCHANGED <<socket, delcomTempDir, isWorker, delegVars, jobWS, writes, content, acks,
                 nRecv, runs, nRuns, nOutput>>

RemoveAt(s, i) == [k \in 1..(Len(s) - 1) |-> IF k < i THEN s[k] ELSE s[k + 1]]

\* mkdtemp settles: the JobInfo replaces config.job, one write stream per
\* announced name is opened and the offer is acknowledged (index.ts 79-94)
newJobMkdtemp(i) ==
  /\ i \in DOMAIN offers
  /\ job' = offers[i].id
  /\ jobWS' = [jobWS EXCEPT ![offers[i].id] = [n \in offers[i].names |-> "open"]]
  /\ content' = [content EXCEPT ![offers[i].id] = [n \in offers[i].names |-> <<>>]]
  /\ offers' = RemoveAt(offers, i)
  /\ step' = Did("new_job_mkdtemp", {}, "ok")
  /\ UNCHANGED <<socket, delcomTempDir, isWorker, delegVars, isWorking, nOffers, writes,
                 acks, nRecv, runs, nRuns, nOutput>>

\* --------------------------------------- worker: 'receive_file_data_ack'
\* the acknowledgment of chunk event id: callback() or callback({err})
Ack(id, j, name, ok) == [id |-> id, j |-> j, name |-> name, ok |-> ok]

\* index.ts 103-120: no job, or a name without a stream (TypeError), or a
\* stream already ended or destroyed: clearJob with the callback; else the
\* chunk is handed to the stream and the callback of write runs later.  The
\* chunk event is identified by its arrival number.
receive_file_data_ack(name) ==
  /\ socket
  /\ nRecv < MaxRecv
  /\ nRecv' = nRecv + 1
  /\ IF job = 0
     THEN /\ clearJob(ErrorOf("No job setup to write to!"), TRUE, "receive_file_data_ack")
          /\ acks' = Append(acks, Ack(nRecv + 1, 0, name, FALSE))
          /\ UNCHANGED <<writes, content>>
     ELSE IF name \notin DOMAIN jobWS[job]
     THEN /\ clearJob(ErrorOf("TypeError"), TRUE, "receive_file_data_ack")
          /\ acks' = Append(acks, Ack(nRecv + 1, job, name, FALSE))
          /\ UNCHANGED <<writes, content>>
     ELSE IF jobWS[job][name] # "open"
     THEN /\ clearJob(ErrorOf("write after end"), TRUE, "receive_file_data_ack")
          /\ acks' = Append(acks, Ack(nRecv + 1, job, name, FALSE))
          /\ UNCHANGED <<writes, content>>
     ELSE /\ writes' = Append(writes, [j |-> job, name |-> name, id |-> nRecv + 1])
          /\ content' = [content EXCEPT ![job][name] = Append(@, nRecv + 1)]
          /\ step' = Did("receive_file_data_ack", {}, "")
          /\ UNCHANGED <<isWorking, job, acks>>
  /\ UNCHANGED <<socket, delcomTempDir, isWorker, delegVars, jobWS, offers, nOffers, runs,
                 nRuns, nOutput>>

\* a write stream completes its writes in the order of the write calls: the
\* pending write k is the oldest of its stream
OldestOfStream(k) ==
  \A m \in 1..(k - 1) : ~(writes[m].j = writes[k].j /\ writes[m].name = writes[k].name)

\* pending writes completed in any order
writeCallbackAnyOrder(k, failed) ==
  /\ k \in DOMAIN writes
  /\ jobWS[writes[k].j][writes[k].name] = "errored" => failed
  /\ writes' = RemoveAt(writes, k)
  /\ acks' = Append(acks, Ack(writes[k].id, writes[k].j, writes[k].name, ~failed))
  /\ IF failed
     THEN /\ clearJob(ErrorOf("EIO"), TRUE, "write_cb")
          /\ jobWS' = [jobWS EXCEPT ![writes[k].j][writes[k].name] = "errored"]
     ELSE /\ step' = Did("write_cb", {}, "ok")
          /\ UNCHANGED <<isWorking, job, jobWS>>
  /\ UNCHANGED <<socket, delcomTempDir, isWorker, delegVars, content, offers, nOffers,
                 nRecv, runs, nRuns, nOutput>>

\* the callback of ws.write runs (index.ts 110-116), with or without error;
\* a failed write destroys its stream, whose later writes fail too
writeCallback(k, failed) ==
  /\ k \in DOMAIN writes
  /\ OldestOfStream(k)
  /\ jobWS[writes[k].j][writes[k].name] = "errored" => failed
  /\ writes' = RemoveAt(writes, k)
  /\ acks' = Append(acks, Ack(writes[k].id, writes[k].j, writes[k].name, ~failed))
  /\ IF failed
     THEN /\ clearJob(ErrorOf("EIO"), TRUE, "write_cb")
          /\ jobWS' = [jobWS EXCEPT ![writes[k].j][writes[k].name] = "errored"]
     ELSE /\ step' = Did("write_cb", {}, "ok")
          /\ UNCHANGED <<isWorking, job, jobWS>>
  /\ UNCHANGED <<socket, delcomTempDir, isWorker, delegVars, content, offers, nOffers,
                 nRecv, runs, nRuns, nOutput>>

\* ----------------------------------------------------- worker: 'run_job'
\* buildContainer / runContainer before spawn (index.ts 321-326, 354-359)
CanSpawn == job # 0 /\ socket
SpawnErr == IF job = 0 THEN "No job dir to build from!" ELSE "No socket to build with!"

\* the handler up to its first await (index.ts 141-157): ends every input
\* stream of config.job and waits for their 'finish'; without a job it goes
\* straight to buildContainer, which rejects
run_job ==
  /\ socket
  /\ nRuns < MaxRuns
  /\ nRuns' = nRuns + 1
  /\ IF job = 0
     THEN /\ clearJob(StringErr(SpawnErr), FALSE, "run_job")
          /\ UNCHANGED <<jobWS, runs>>
     ELSE /\ jobWS' = [jobWS EXCEPT ![job] = [n \in DOMAIN @ |-> EndStream(@[n])]]
          /\ runs' = Append(runs, [phase |-> "finishing", j |-> job,
                                   remaining |-> DOMAIN jobWS[job],
                                   origin |-> job])
          /\ step' = Did("run_job", {}, "")
          /\ UNCHANGED <<isWorking, job>>
  /\ UNCHANGED <<socket, delcomTempDir, isWorker, delegVars, offers, nOffers, writes,
                 content, acks, nRecv, nOutput>>

\* 'finish' of an input stream (index.ts 148-150): the run_job handlers
\* whose Promise.all is complete call buildContainer (index.ts 157, 319-335)
jobStreamFinish(j, n) ==
  /\ n \in DOMAIN jobWS[j]
  /\ jobWS[j][n] = "ending"
  /\ \A k \in DOMAIN writes : ~(writes[k].j = j /\ writes[k].name = n)
  /\ jobWS' = [jobWS EXCEPT ![j][n] = "finished"]
  /\ LET r1 == [i \in DOMAIN runs |->
                  IF runs[i].phase = "finishing" /\ runs[i].j = j
                  THEN [runs[i] EXCEPT !.remaining = @ \ {n}]
                  ELSE runs[i]]
         resumed == { i \in DOMAIN r1 : r1[i].phase = "finishing" /\ r1[i].remaining = {} }
     IN IF resumed = {}
        THEN /\ runs' = r1
             /\ step' = Did("job_finish", {}, "")
             /\ UNCHANGED <<isWorking, job>>
        ELSE IF CanSpawn
        THEN /\ runs' = [i \in DOMAIN r1 |->
                          IF i \in resumed
                          THEN [r1[i] EXCEPT !.phase = "building", !.j = job]
                          ELSE r1[i]]
             /\ step' = Did("job_finish", {}, "")
             /\ UNCHANGED <<isWorking, job>>
        ELSE /\ runs' = SelectSeq(r1, LAMBDA r : ~(r.phase = "finishing" /\ r.remaining = {}))
             /\ clearJob(StringErr(SpawnErr), FALSE, "job_finish")
  /\ UNCHANGED <<socket, delcomTempDir, isWorker, delegVars, offers, nOffers, writes,
                 content, acks, nRecv, nRuns, nOutput>>

\* the exit status of `docker build` ignored
buildCloseIgnoresCode(i, code) ==
  /\ i \in DOMAIN runs
  /\ runs[i].phase = "building"
  /\ IF CanSpawn
     THEN /\ runs' = [runs EXCEPT ![i].phase = "running", ![i].j = job]
          /\ step' = DidE("build_close", {}, "", "", FALSE,
                          IF code # 0 THEN StringErr("Build failed") ELSE NoErr)
          /\ UNCHANGED <<isWorking, job>>
     ELSE /\ runs' = RemoveAt(runs, i)
          /\ clearJob(StringErr(SpawnErr), FALSE, "build_close")
  /\ UNCHANGED <<socket, delcomTempDir, isWorker, delegVars, jobWS, offers, nOffers,
                 writes, content, acks, nRecv, nRuns, nOutput>>

\* 'close' of `docker build` (index.ts 342-348), then runContainer up to
\* its spawn (index.ts 159, 352-363)
buildClose(i, code) ==
  /\ i \in DOMAIN runs
  /\ runs[i].phase = "building"
  /\ IF code # 0
     THEN /\ runs' = RemoveAt(runs, i)
          /\ clearJob(StringErr("Build failed"), FALSE, "build_close")
     ELSE IF CanSpawn
     THEN /\ runs' = [runs EXCEPT ![i].phase = "running", ![i].j = job]
          /\ step' = Did("build_close", {}, "")
          /\ UNCHANGED <<isWorking, job>>
     ELSE /\ runs' = RemoveAt(runs, i)
          /\ clearJob(StringErr(SpawnErr), FALSE, "build_close")
  /\ UNCHANGED <<socket, delcomTempDir, isWorker, delegVars, jobWS, offers, nOffers,
                 writes, content, acks, nRecv, nRuns, nOutput>>

\* 'close' of `docker run` (index.ts 370-376), then 'done' and clearJob()
\* or clearJob(err) (index.ts 160-165)
runClose(i, code) ==
  /\ i \in DOMAIN runs
  /\ runs[i].phase = "running"
  /\ runs' = RemoveAt(runs, i)
  /\ isWorking' = FALSE
  /\ job' = 0
  /\ step' = IF code # 0
             THEN DidE("run_close", ClearJobEmits(StringErr("Runtime failed")), "",
                       "clearJob", ~isWorking /\ job = 0, StringErr("Runtime failed"))
             ELSE DidC("run_close", {"done"}, "", "clearJob", ~isWorking /\ job = 0)
  /\ UNCHANGED <<socket, delcomTempDir, isWorker, delegVars, jobWS, offers, nOffers,
                 writes, content, acks, nRecv, nRuns, nOutput>>

\* 'delegator_disconnect' (index.ts 176-179)
delegator_disconnect ==
  /\ socket
  /\ clearJob(StringErr("Delegator has disconnected"), FALSE, "delegator_disconnect")
  /\ UNCHANGED <<socket, delcomTempDir, isWorker, delegVars, jobWS, offers, nOffers,
                 writes, content, acks, nRecv, runs, nRuns, nOutput>>

\* ------------------------------- delegator: build/run output chunk events
\* index.ts 123-139: without a stream, or without a callback to call, the
\* catch runs clearJob
outputChunk(name, hasCb) ==
  /\ socket
  /\ nOutput < MaxOutput
  /\ nOutput' = nOutput + 1
  /\ IF res = NoRes
     THEN clearJob(ErrorOf("No writeable stream to write to!"), hasCb, name)
     ELSE IF ~hasCb
     THEN clearJob(ErrorOf("TypeError"), FALSE, name)
     ELSE /\ step' = Did(name, {}, "ok")
          /\ UNCHANGED <<isWorking, job>>
  /\ UNCHANGED <<socket, delcomTempDir, isWorker, delegVars, jobWS, offers, nOffers,
                 writes, content, acks, nRecv, runs, nRuns>>

\* ------------------------------------------------------ specifications
\* the steps of the delegateJob calls cs, and of the streams they open
CallSteps(cs, lists, ackErrs, readErrors) ==
  \/ \E c \in cs, paths \in lists, od \in BOOLEAN : delegateJob(c, paths, od)
  \/ \E c \in cs : createJobMkdtemp(c)
  \/ \E c \in cs : createJobLstat(c)
  \/ \E c \in cs, e \in ackErrs : createJobAck(c, e)
  \/ \E c \in cs, i \in 1..2 : readData(c, i)
  \/ \E c \in cs, i \in 1..2, errored \in readErrors : readClose(c, i, errored)
  \/ \E d \in cs, n \in outputNames : StreamFinish(d, n)

\* the delegator role: one delegateJob call with every argument, every
\* answer of the coordinator and every event that ends a delegation
Next ==
  \/ init
  \/ quit
  \/ CallSteps({1}, FilePathLists, {"", "No such worker"}, {FALSE})
  \/ \E i \in 1..2 : chunkAck(1, i, ChunkAckOk)
  \/ finished
  \/ worker_disconnect
  \/ delegation_failed

Spec == Init /\ [][Next]_vars

\* the file transfer of one delegateJob call in detail: two files, several
\* chunks, read errors
SendNext ==
  \/ init
  \/ quit
  \/ CallSteps({1}, {TwoFiles}, {""}, BOOLEAN)
  \/ \E i \in 1..2, e \in ChunkAckOutcomes : chunkAck(1, i, e)
  \/ finished
  \/ worker_disconnect
  \/ delegation_failed

SendSpec == Init /\ [][SendNext]_vars

\* delegateJob calls that overlap on a connected client
OverlapNext ==
  \/ init
  \/ CallSteps(Calls, {<<PDockerfile>>, <<PNotes>>}, {""}, {FALSE})
  \/ finished
  \/ worker_disconnect

OverlapSpec == Init /\ [][OverlapNext]_vars

\* the worker role: the events a worker receives
WorkerNext ==
  \/ init
  \/ quit
  \/ disconnect
  \/ joinWorkforce
  \/ leaveWorkforce
  \/ \E names \in Manifests : new_job_ack(names)
  \/ \E i \in 1..MaxOffers : newJobMkdtemp(i)
  \/ \E name \in ChunkNames : receive_file_data_ack(name)
  \/ \E k \in 1..MaxRecv, failed \in BOOLEAN : writeCallback(k, failed)
  \/ run_job
  \/ \E j \in 1..MaxOffers, n \in ChunkNames : jobStreamFinish(j, n)
  \/ \E i \in 1..MaxRuns, code \in {0, 1} : buildClose(i, code)
  \/ \E i \in 1..MaxRuns, code \in {0, 1} : runClose(i, code)
  \/ delegator_disconnect

WorkerSpec == Init /\ [][WorkerNext]_vars

\* both roles on one node: a delegateJob call and the events of its
\* delegation, while job offers and a delegator disconnect arrive
RolesNext ==
  \/ init
  \/ quit
  \/ CallSteps({1}, {<<PDockerfile>>}, {""}, {FALSE})
  \/ \E names \in {{"Dockerfile"}} : new_job_ack(names)
  \/ \E i \in 1..MaxOffers : newJobMkdtemp(i)
  \/ delegator_disconnect
  \/ finished
  \/ worker_disconnect
  \/ \E n \in outputNames, hasCb \in BOOLEAN : outputChunk(n, hasCb)

RolesSpec == Init /\ [][RolesNext]_vars

\* the scheduling of Node and of the coordinator: every pending file-system
\* operation, stream event and acknowledgment is eventually delivered
Fairness ==
  /\ \A c \in Calls : WF_vars(createJobMkdtemp(c))
  /\ \A c \in Calls : WF_vars(createJobLstat(c))
  /\ \A c \in Calls : WF_vars(createJobAck(c, ""))
  /\ \A c \in Calls, i \in 1..2 : WF_vars(readData(c, i))
  /\ \A c \in Calls, i \in 1..2 : WF_vars(readClose(c, i, FALSE))
  /\ \A d \in Calls, n \in outputNames : WF_vars(StreamFinish(d, n))

LiveSpec == Init /\ [][OverlapNext]_vars /\ Fairness

\* ================================================================ claims
AckError == "No such worker"
TransferRequests == {"send_file_data_ack", "files_done_sending"}
Resolved(d) == finishPromise[d].state = "resolved"
NoDockerfileIn(paths) == \A i \in DOMAIN paths : paths[i][Len(paths[i])] # "Dockerfile"

\* C1: a job offer that arrives while isWorking is true or an ActiveJob is
\* present is answered with an error acknowledgment and changes no state:
\* isWorking, the ActiveJob and its input write streams stay as they were.
C1_RejectedOfferChangesNothing ==
  [][ (nOffers' = nOffers + 1 /\ (isWorking \/ job # 0))
        => /\ step'.ack \notin {"", "ok"}
           /\ isWorking' = isWorking
           /\ job' = job
           /\ jobWS' = jobWS ]_vars

\* C2: delegateJob returns {res} only if the completion signal of its
\* delegation was resolved without an error, and returns {err} whenever the
\* delegation was cleared with an error.
C2_SuccessOnlyWithoutError ==
  \A c \in Calls :
    /\ ret[c].kind = "res" => Resolved(c) /\ finishPromise[c].err = ""
    /\ (pc[c] = "done" /\ Resolved(c) /\ finishPromise[c].err # "") => ret[c].kind = "err"

\* C3: the completion signal of every delegation is resolved exactly once,
\* by the first clearDelegation invoked on it, and later invocations neither
\* resolve it again nor change its value.
C3_ResolvedOnceByFirst ==
  \A d \in Calls :
    /\ resolveCalls[d] <= 1
    /\ firstClear[d].state = "done"
         => Resolved(d) /\ finishPromise[d].err = firstClear[d].err /\ resolveCalls[d] = 1

\* C4: for each input file at most one chunk-transfer request is
\* outstanding at any time.
C4_OneChunkInFlight ==
  \A c \in Calls : \A i \in DOMAIN inflight[c] : inflight[c][i] <= 1

\* C5: under fairness, once a terminating event has been delivered after a
\* delegateJob call started, the call eventually returns and leaves the
\* delegator idle.
C5_CallEventuallyReturns ==
  \A c \in Calls : evSince[c] ~> (pc[c] = "done" /\ ~isDelegating /\ res = NoRes)

\* C6: when the acknowledgment of the job-creation request carries an
\* error, delegateJob returns that same error, opens no read stream and
\* sends neither a chunk-transfer request nor the files-done notification.
C6_AckErrorReturned ==
  \A c \in Calls :
    "ack error" \in reqs[c]
      => /\ rs[c] = <<>>
         /\ reqs[c] \cap TransferRequests = {}
         /\ pc[c] = "done" => ret[c] = RetErr(AckError)

\* C7: in every reachable state isWorking is true exactly when an ActiveJob
\* is present and isDelegating is true exactly when an ActiveDelegation is
\* present.
C7_FlagsMatchSubState ==
  /\ isWorking <=> job # 0
  /\ isDelegating <=> res # NoRes

\* C8: each of the four output write streams of a delegation has been ended
\* and has finished flushing by the time the ActiveDelegation is discarded.
C8_StreamsClosedBeforeDiscard ==
  \A d \in Calls : discarded[d] => \A n \in outputNames : resWS[d][n] = "finished"

\* C9: clearJob and clearDelegation invoked on an already-cleared sub-state
\* are no-ops: Session State is unchanged, no stream is ended, nothing is
\* resolved and nothing is emitted or acknowledged.
NoStreamEnded ==
  /\ \A j \in DOMAIN jobWS : \A n \in DOMAIN jobWS[j] :
        jobWS[j][n] = "open" => jobWS'[j][n] = "open"
  /\ \A d \in Calls : \A n \in outputNames :
        resWS[d][n] = "open" => resWS'[d][n] = "open"
SessionUnchanged ==
  /\ UNCHANGED <<isWorking, job, isDelegating, res, finishPromise, resolveCalls,
                 clearing>>
  /\ NoStreamEnded
C9_SecondClearIsNoOp ==
  [][ (step'.clr # "" /\ step'.again)
        => SessionUnchanged /\ step'.emits = {} /\ step'.ack = "" ]_vars

\* C9 as amended: on an already-cleared sub-state clearJob and
\* clearDelegation leave Session State unchanged, end no stream and resolve
\* nothing; clearDelegation emits nothing, while clearJob with an error
\* still emits 'clearing_job' and answers the callback it was given.
C9_SecondClearKeepsState ==
  [][ (step'.clr # "" /\ step'.again)
        => /\ SessionUnchanged
           /\ step'.clr = "clearDelegation" => step'.emits = {} /\ step'.ack = "" ]_vars
C9_Witness ==
  /\ step.clr = "clearJob"
  /\ step.again
  /\ step.emits = {"clearing_job"}
  /\ nOffers > 0

\* C10: a delegateJob call whose file names include no Dockerfile issues no
\* transport request of any kind and returns an err result.
C10_NoDockerfileNoRequest ==
  \A c \in Calls :
    (pc[c] # "idle" /\ NoDockerfileIn(filePaths[c]))
      => /\ reqs[c] = {}
         /\ rs[c] = <<>>
         /\ ret[c].kind # "res"
         /\ pc[c] = "done" => ret[c].kind = "err"
C10_Witness ==
  \E c \in Calls :
    /\ pc[c] = "done"
    /\ NoDockerfileIn(filePaths[c])
    /\ ret[c].kind = "err"
    /\ \E b \in Calls : b # c /\ reqs[b] # {}

\* C11: after a run request, a non-zero exit status of the build step ends
\* the handler through clearJob without invoking the run step and without
\* emitting 'done'; a non-zero exit status of the run step ends it through
\* clearJob with the error, 'clearing_job' is emitted and 'done' is not.
BuildFailed == StringErr("Build failed")
RunFailed == StringErr("Runtime failed")
Running(rr) == { i \in DOMAIN rr : rr[i].phase = "running" }
BuildFailureAborts ==
  (step'.op = "build_close" /\ step'.err = BuildFailed)
    => /\ step'.clr = "clearJob"
       /\ "done" \notin step'.emits
       /\ Len(runs') < Len(runs)
       /\ Cardinality(Running(runs')) <= Cardinality(Running(runs))
RunFailureIsError ==
  (step'.op = "run_close" /\ step'.err = RunFailed)
    => /\ step'.clr = "clearJob"
       /\ "done" \notin step'.emits
       /\ Len(runs') < Len(runs)
C11_FailedStepNotDone ==
  [][ /\ BuildFailureAborts
      /\ RunFailureIsError
      /\ (step'.op = "run_close" /\ step'.err = RunFailed)
            => "clearing_job" \in step'.emits ]_vars

\* C11 as amended: the same, but 'clearing_job' is emitted for the failed
\* run exactly when the client still has its socket (quit() was not called
\* while the container ran).
C11_FailedStepNotDoneIfConnected ==
  [][ /\ BuildFailureAborts
      /\ RunFailureIsError
      /\ (step'.op = "run_close" /\ step'.err = RunFailed)
            => ("clearing_job" \in step'.emits <=> socket) ]_vars
C11_Witness ==
  /\ step.op = "run_close"
  /\ step.err = RunFailed
  /\ step.clr = "clearJob"
  /\ "clearing_job" \in step.emits
  /\ ~isWorking

\* C12: for every file of a job the chunks whose write succeeded are in the
\* file in the order their acknowledgments were returned, none lost,
\* duplicated or reordered, and every chunk event receives exactly one
\* acknowledgment (none while its write is pending).
OkIds(j, n) ==
  LET a == SelectSeq(acks, LAMBDA x : x.ok /\ x.j = j /\ x.name = n)
  IN [i \in DOMAIN a |-> a[i].id]
AckedOk(id) == \E i \in DOMAIN acks : acks[i].id = id /\ acks[i].ok
NumAcks(id) == Cardinality({ i \in DOMAIN acks : acks[i].id = id })
NumPending(id) == Cardinality({ k \in DOMAIN writes : writes[k].id = id })
C12_ChunksInAckOrder ==
  /\ \A j \in DOMAIN content : \A n \in DOMAIN content[j] :
        SelectSeq(content[j][n], AckedOk) = OkIds(j, n)
  /\ \A id \in 1..nRecv : NumAcks(id) + NumPending(id) = 1
C12_Witness ==
  \E j \in DOMAIN content : \E n \in DOMAIN content[j] :
    /\ Len(content[j][n]) = 2
    /\ OkIds(j, n) = content[j][n]
    /\ isWorking

\* C13: leaveWorkforce called in any worker state changes only isWorker and
\* issues the leave request: isWorking, the ActiveJob, its streams and the
\* handlers working the job are unchanged, so the job still proceeds to its
\* done or error outcome.
C13_LeaveKeepsJob ==
  [][ step'.op = "leaveWorkforce"
        => /\ ~isWorker'
           /\ step'.emits \subseteq {"leave_ack"}
           /\ step'.clr = ""
           /\ UNCHANGED <<isWorking, job, jobWS, offers, writes, content, runs,
                          socket, delegVars>> ]_vars
C13_Witness ==
  /\ step.op = "leaveWorkforce"
  /\ step.emits = {"leave_ack"}
  /\ isWorking
  /\ job # 0
  /\ \E i \in DOMAIN runs : runs[i].phase = "running"

\* C14: a chunk-transfer request whose acknowledgment carries an error or
\* times out makes the file send fail: no 'files_done_sending' is emitted
\* for the call, the call ends with its delegation cleared with an error,
\* and the chunk is not sent again.
ChunkAckFailed(c) == reqs[c] \cap {"chunk ack error", "chunk ack timeout"} # {}
C14_FailedChunkFailsSend ==
  \A c \in Calls :
    ChunkAckFailed(c)
      => /\ "files_done_sending" \notin reqs[c]
         /\ pc[c] # "awaitFinish"
         /\ pc[c] = "done" => ret[c].kind = "err"
         /\ \A i \in DOMAIN rs[c] : rs[c][i].sent <= NumChunks(filePaths[c][i])

\* C15: 'files_done_sending' is emitted at most once per delegation and
\* only after every chunk of every input file has been sent and
\* acknowledged; it is not emitted when the pipeline of a file failed.
C15_FilesDoneAfterAllAcked ==
  \A c \in Calls :
    "files_done_sending" \in reqs[c]
      => /\ pc[c] \in {"awaitFinish", "clearing", "done"}
         /\ \A i \in DOMAIN rs[c] :
               /\ rs[c][i].state = "closed"
               /\ rs[c][i].sent = NumChunks(filePaths[c][i])
               /\ inflight[c][i] = 0

\* C16: whenever the paired delegator disconnects, the transport channel
\* disconnects or the client quits, in whatever worker state, the worker is
\* unwound: afterwards isWorking is false and no ActiveJob is present.
C16_DisconnectUnwinds ==
  [][ step'.op \in {"delegator_disconnect", "disconnect", "quit"}
        => ~isWorking' /\ job' = 0 ]_vars

\* C17: a build/run output chunk event, with or without an open output
\* stream and with or without an acknowledgment callback, leaves isWorking
\* and the ActiveJob unchanged, emits no 'clearing_job' and does not go
\* through clearJob.
C17_OutputEventKeepsWorker ==
  [][ step'.op \in outputNames
        => /\ UNCHANGED <<isWorking, job>>
           /\ "clearing_job" \notin step'.emits
           /\ step'.clr # "clearJob" ]_vars

\* C18: no reachable state has an open input write stream that belongs to
\* no ActiveJob: when an ActiveJob is discarded every input stream it
\* opened has been closed.
C18_NoOrphanInputStream ==
  \A j \in DOMAIN jobWS : \A n \in DOMAIN jobWS[j] :
    jobWS[j][n] = "open" => job = j

\* C19: an ActiveDelegation is never replaced: it stays the delegation of
\* the session until it is cleared, and when it is cleared its completion
\* signal is resolved and its four output streams have finished.
C19_DelegationNeverReplaced ==
  [][ (res # NoRes /\ res' # res)
        => /\ res' = NoRes
           /\ finishPromise'[res].state = "resolved"
           /\ \A n \in outputNames : resWS'[res][n] = "finished" ]_vars

\* C20: a chunk event that names a file outside the manifest or arrives
\* when no ActiveJob exists is not written, and such an event, like a chunk
\* whose write fails, unwinds the worker, is acknowledged with the error
\* message and causes 'clearing_job' to be emitted.
ChunkRejected ==
  /\ nRecv' = nRecv + 1
  /\ Len(writes') = Len(writes)
WriteFailed ==
  /\ Len(writes') < Len(writes)
  /\ ~acks'[Len(acks')].ok
ChunkAccepted ==
  /\ nRecv' = nRecv + 1
  /\ Len(writes') > Len(writes)
ChunkErrorUnwinds ==
  /\ ChunkAccepted
       => /\ job # 0
          /\ writes'[Len(writes')].name \in DOMAIN jobWS[job]
          /\ step'.clr = ""
  /\ (ChunkRejected \/ WriteFailed)
       => /\ ~isWorking' /\ job' = 0
          /\ step'.clr = "clearJob"
          /\ step'.ack = step'.err.msg
          /\ step'.ack \notin {"", "ok"}
          /\ ~acks'[Len(acks')].ok
Invoked(c, cb) == \E i \in DOMAIN cbs[c] : cbs[c][i] = cb
LifecycleOrder == <<"whenJobAssigned", "whenFilesSent", "whenJobDone">>
C21_CallbacksAtTheirPoints ==
  \A c \in Calls :
    /\ cbs[c] = SubSeq(LifecycleOrder, 1, Len(cbs[c]))
    /\ Invoked(c, "whenJobAssigned")
         => "new_job_ack" \in reqs[c] /\ "ack" \in reqs[c]
    /\ Invoked(c, "whenFilesSent") => "files_done_sending" \in reqs[c]
    /\ Invoked(c, "whenJobDone") => Resolved(c) /\ finishPromise[c].err = ""

\* C22: the build step is never in progress for a job that has an input
\* write stream which has not been ended and reported finish.
C22_BuildAfterStreamsFinished ==
  \A i \in DOMAIN runs :
    runs[i].phase = "building"
      => \A n \in DOMAIN jobWS[runs[i].j] : jobWS[runs[i].j][n] = "finished"

\* C23: when the ActiveJob is a job that no pending run handler was started
\* for, the completion of a step of an earlier job's run handler neither
\* emits 'done' nor changes isWorking or the ActiveJob.
StaleHandlersOnly ==
  /\ job # 0
  /\ \A i \in DOMAIN runs : runs[i].origin # job
C23_StaleHandlerKeepsNewJob ==
  [][ (step'.op \in {"job_finish", "build_close", "run_close"} /\ StaleHandlersOnly)
        => /\ "done" \notin step'.emits
           /\ UNCHANGED <<isWorking, job>> ]_vars
====
